---- MODULE Spec2Model ----
(***************************************************************************)
(* Model of the workflow-timer GitHub action (src/src/main.ts).            *)
(*                                                                         *)
(* main.ts holds two variants of the action.  The "narrative" variant      *)
(* (lines 1-191) compares the overall run time with the default branch's   *)
(* and publishes one sentence; the "table" variant (lines 193-580)         *)
(* publishes a table of per-job timings.  Both publish through             *)
(* postTimings, which lists the pull request's comments and then updates   *)
(* the first one containing `header`, or creates one.                      *)
(*                                                                         *)
(* Text is modelled as a sequence of fragments (strings): concatenation is *)
(* \o, join(sep) puts a sep fragment between the parts, and                *)
(* includes(header) asks for the header fragment.  undefined/null is the   *)
(* empty tuple and a present value v is <<v>>.  Timestamps are             *)
(* milliseconds since an epoch, durations of the narrative variant whole   *)
(* seconds.                                                                *)
(***************************************************************************)
EXTENDS Integers, Sequences, FiniteSets, TLC

VARIABLES
    comments,   \* the pull request's comments, oldest first: [id, body]
    nextId,     \* the id the platform gives the next comment
    inv,        \* the invocations of run(): position and locals of each
    platform,   \* what the REST API answers: runs, jobs, default branch
    log,        \* the createComment / updateComment calls issued so far
    call        \* a call of a pure function: its arguments and its result

vars == <<comments, nextId, inv, platform, log, call>>

-----------------------------------------------------------------------------
(* Bounds *)

MaxPct == 60            \* percent deltas range over -MaxPct..MaxPct
MaxRuns == 3            \* longest workflow-run list
MaxJobs == 2            \* longest job list of a run
MaxInvocations == 3     \* invocations of the action per behaviour
MaxOtherComments == 1   \* comments written by others per behaviour

-----------------------------------------------------------------------------
(* Values and text *)

header == "⏱ Workflow Timer ⏱"

None == <<>>
Some(v) == <<v>>

Abs(n) == IF n < 0 THEN -n ELSE n

\* Math.round(n / d) for d > 0: halves round towards +Infinity.
Round(n, d) == (2 * n + d) \div (2 * d)

RECURSIVE Join(_, _)
\* parts.join(sep), each part a sequence of fragments
Join(parts, sep) ==
    IF parts = <<>> THEN <<>>
    ELSE IF Len(parts) = 1 THEN parts[1]
    ELSE parts[1] \o <<sep>> \o Join(Tail(parts), sep)

\* The end of substring(0, 7) in a text of n characters.
Min7(n) == IF n < 7 THEN n ELSE 7

\* text.includes(needle)
includes(text, needle) == \E k \in DOMAIN text : text[k] = needle

\* Array.prototype.find, given for each element whether the callback holds
\* of it: the index of the first element it holds of, 0 when there is none.
Find(holds) ==
    IF \E k \in DOMAIN holds : holds[k]
    THEN CHOOSE k \in DOMAIN holds : holds[k] /\ \A m \in 1..(k - 1) : ~holds[m]
    ELSE 0

RECURSIVE SeqsUpTo(_, _)
\* Every sequence over S of length at most n.
SeqsUpTo(S, n) ==
    IF n = 0 THEN {<<>>}
    ELSE LET shorter == SeqsUpTo(S, n - 1)
         IN  shorter \cup {Append(s, x) : s \in {t \in shorter : Len(t) = n - 1}, x \in S}

-----------------------------------------------------------------------------
(* getSeverity and formatDuration.  An emoji outside the basic plane is
   written as its code point. *)

\* A variant of getSeverity whose upper tiers take their lower boundary.
getSeverityInclusive(percentage) ==
    IF percentage >= 50 THEN [change |-> "**regressed severely**", emoji |-> "U+1F62D"]
    ELSE IF percentage >= 20 THEN [change |-> "regressed a bit", emoji |-> "U+1F625"]
    ELSE IF percentage > 0 THEN [change |-> "regressed slightly", emoji |-> "U+1F641"]
    ELSE IF percentage > -20 THEN [change |-> "improved slightly", emoji |-> "U+1F642"]
    ELSE IF percentage > -50 THEN [change |-> "improved a lot", emoji |-> "U+1F973"]
    ELSE [change |-> "**improved significantly**", emoji |-> "U+1F92F"]

getSeverity(percentage) ==
    IF percentage > 50 THEN [change |-> "**regressed severely**", emoji |-> "U+1F62D"]
    ELSE IF percentage > 20 THEN [change |-> "regressed a bit", emoji |-> "U+1F625"]
    ELSE IF percentage > 0 THEN [change |-> "regressed slightly", emoji |-> "U+1F641"]
    ELSE IF percentage > -20 THEN [change |-> "improved slightly", emoji |-> "U+1F642"]
    ELSE IF percentage > -50 THEN [change |-> "improved a lot", emoji |-> "U+1F973"]
    ELSE [change |-> "**improved significantly**", emoji |-> "U+1F92F"]

formatDuration(totalSeconds) ==
    LET t == Abs(totalSeconds)
        minutes == t \div 60
        secs == t - minutes * 60
    IN  IF minutes = 1 THEN <<ToString(minutes), "min ", ToString(secs), "s">>
        ELSE IF minutes > 0 THEN <<ToString(minutes), "mins ", ToString(secs), "s">>
        ELSE <<ToString(secs), "s">>

-----------------------------------------------------------------------------
(* The baseline selector: the filter and the shift of both variants *)

successfulRuns(workflow_runs, branch) ==
    SelectSeq(workflow_runs,
              LAMBDA run : /\ run.head_branch = branch
                           /\ run.status = "completed"
                           /\ run.conclusion = "success")

\* A variant of the selector that takes the last run left by the filter.
latestRunTakesLast(workflow_runs, branch) ==
    LET successful == successfulRuns(workflow_runs, branch)
    IN  IF successful = <<>> THEN None
        ELSE IF successful[Len(successful)].run_started_at = None THEN None
        ELSE Some(successful[Len(successful)])

\* The run both variants go on with, None when they return undefined.
latestRun(workflow_runs, branch) ==
    LET successful == successfulRuns(workflow_runs, branch)
    IN  IF successful = <<>> THEN None
        ELSE IF Head(successful).run_started_at = None THEN None
        ELSE Some(Head(successful))

-----------------------------------------------------------------------------
(* The timing collector *)

\* jobNames.includes(name)
isMonitored(jobNames, name) == \E k \in DOMAIN jobNames : jobNames[k] = name

\* url: html_url || url
jobUrl(job) == IF job.html_url = None THEN job.url ELSE job.html_url[1]

\* The JobTimes of a finished job.
jobTimings(job) ==
    [name |-> job.name,
     url |-> jobUrl(job),
     duration |-> Round(job.completed_at[1] - job.started_at, 1000)]

RECURSIVE jobLoop(_, _, _)
\* The loop over allJobs.data.jobs: acc holds the jobs pushed and the
\* warnings given so far.
jobLoop(rest, jobNames, acc) ==
    IF rest = <<>> THEN acc
    ELSE LET job == Head(rest)
         IN  IF ~isMonitored(jobNames, job.name)
             THEN jobLoop(Tail(rest), jobNames, acc)
             ELSE IF job.completed_at = None
             THEN jobLoop(Tail(rest), jobNames,
                          [acc EXCEPT !.warnings =
                              Append(@, [kind |-> "unfinished", names |-> <<job.name>>])])
             ELSE jobLoop(Tail(rest), jobNames,
                          [acc EXCEPT !.jobs = Append(@, jobTimings(job))])

\* A variant of the collector that gives up at the first unfinished job.
getTimingsStopsAtUnfinished(run, allJobs, runId, jobNames) ==
    LET unfinished == Find([k \in DOMAIN allJobs |->
                                isMonitored(jobNames, allJobs[k].name)
                                    /\ allJobs[k].completed_at = None])
        seen == IF unfinished = 0 THEN allJobs ELSE SubSeq(allJobs, 1, unfinished)
        looped == jobLoop(seen, jobNames, [jobs |-> <<>>, warnings |-> <<>>])
    IN  [value |-> [runId |-> runId,
                    displayName |-> SubSeq(run.head_sha, 1, Min7(Len(run.head_sha))),
                    htmlUrl |-> run.html_url,
                    jobs |-> looped.jobs,
                    started |-> run.created_at],
         warnings |-> looped.warnings]

\* getTimings, given what getWorkflowRun (run) and listJobsForWorkflowRun
\* (allJobs) answered: the WorkflowRun and the warnings given.
getTimings(run, allJobs, runId, jobNames) ==
    LET looped == jobLoop(allJobs, jobNames, [jobs |-> <<>>, warnings |-> <<>>])
        warnings ==
            IF Len(looped.jobs) = 0
            THEN Append(looped.warnings,
                        [kind |-> "none selected",
                         names |-> [k \in DOMAIN allJobs |-> allJobs[k].name]])
            ELSE looped.warnings
    IN  [value |-> [runId |-> runId,
                    displayName |-> SubSeq(run.head_sha, 1, Min7(Len(run.head_sha))),
                    htmlUrl |-> run.html_url,
                    jobs |-> looped.jobs,
                    started |-> run.created_at],
         warnings |-> warnings]

\* getDefaultBranchTimings, given what listWorkflowRuns answered and, for the
\* run chosen, getWorkflowRun (runOf) and listJobsForWorkflowRun (jobsOf).
getDefaultBranchTimings(workflow_runs, runOf, jobsOf, branch, jobNames) ==
    LET latest == latestRun(workflow_runs, branch)
    IN  IF latest = None THEN [value |-> None, warnings |-> <<>>]
        ELSE LET timings == getTimings(runOf[latest[1].id], jobsOf[latest[1].id],
                                       latest[1].id, jobNames)
             IN  [value |-> Some([timings.value EXCEPT !.displayName = <<branch>>]),
                  warnings |-> timings.warnings]

\* getPreviousRunTimings
getPreviousRunTimings == <<>>

-----------------------------------------------------------------------------
(* The table *)

\* A free-form message is added when it is neither undefined nor "".
hasMessage(comment) == comment.message # None /\ comment.message[1] # ""

\* One cell of a row: the first job of that name, or "-".
commentCell(jobs, column) ==
    LET k == Find([m \in DOMAIN jobs |-> jobs[m].name = column])
    IN  IF k # 0
        THEN <<"[">> \o formatDuration(jobs[k].duration) \o <<"](", jobs[k].url, ")">>
        ELSE <<"-">>

\* commentRow(run, columns); no caller passes the third parameter, name.
commentRow(run, columns) ==
    LET label == <<"[">> \o run.displayName \o <<"](", run.htmlUrl, ")">>
        row == <<label>> \o [k \in DOMAIN columns |-> commentCell(run.jobs, columns[k])]
    IN  <<"| ">> \o Join(row, " | ") \o <<" |">>

\* A variant of formatComment that puts the current run above the baseline.
formatCommentCurrentFirst(comment) ==
    LET tableHeader == <<"Run">> \o comment.jobNames
    IN  Join(<<    <<header>>, <<>> >>
             \o (IF hasMessage(comment) THEN << <<comment.message[1]>>, <<>> >> ELSE <<>>)
             \o << <<"| ">> \o Join([k \in DOMAIN tableHeader |-> <<tableHeader[k]>>], " | ") \o <<" |">>,
                   <<"| ">> \o Join([k \in DOMAIN tableHeader |-> <<"---">>], " | ") \o <<" |">> >>
             \o << commentRow(comment.currentRun, comment.jobNames) >>
             \o (IF comment.defaultBranch # None
                 THEN << commentRow(comment.defaultBranch[1], comment.jobNames) >>
                 ELSE <<>>)
             \o << <<>>, <<"---">>, <<>>,
                   <<"U+1F916 *Beep. Boop. I'm a bot. If you find any issues, please report them to <",
                     "packageJson.homepage", ">.*">> >>,
             "\n")

formatComment(comment) ==
    LET tableHeader == <<"Run">> \o comment.jobNames
        lines ==
            << <<header>>, <<>> >>
            \o (IF hasMessage(comment) THEN << <<comment.message[1]>>, <<>> >> ELSE <<>>)
            \o << <<"| ">> \o Join([k \in DOMAIN tableHeader |-> <<tableHeader[k]>>], " | ") \o <<" |">>,
                  <<"| ">> \o Join([k \in DOMAIN tableHeader |-> <<"---">>], " | ") \o <<" |">> >>
            \o (IF comment.defaultBranch # None
                THEN << commentRow(comment.defaultBranch[1], comment.jobNames) >>
                ELSE <<>>)
            \o << commentRow(comment.currentRun, comment.jobNames) >>
            \o << <<>>, <<"---">>, <<>>,
                  <<"U+1F916 *Beep. Boop. I'm a bot. If you find any issues, please report them to <",
                    "packageJson.homepage", ">.*">> >>
    IN  Join(lines, "\n")

\* The CommentInputs calculateAllTimings returns, given the timings it
\* awaited: the object literal names no message, which is left undefined.
calculateAllTimings(config, currentRun, defaultBranch) ==
    [currentRun |-> currentRun,
     defaultBranch |-> defaultBranch,
     previousRuns |-> getPreviousRunTimings,
     jobNames |-> config.jobsToMonitor,
     message |-> None]

-----------------------------------------------------------------------------
(* Reading a published body back *)

RECURSIVE Split(_, _)
\* text.split(sep): the parts between the sep fragments
Split(text, sep) ==
    LET k == Find([m \in DOMAIN text |-> text[m] = sep])
    IN  IF k = 0 THEN <<text>>
        ELSE <<SubSeq(text, 1, k - 1)>> \o Split(SubSeq(text, k + 1, Len(text)), sep)

Lines(body) == Split(body, "\n")

IsRow(line) == Len(line) >= 2 /\ line[1] = "| " /\ line[Len(line)] = " |"

\* The cells of a table row.
Cells(line) == Split(SubSeq(line, 2, Len(line) - 1), " | ")

\* The rows of the table in a body, in order.
Rows(body) == SelectSeq(Lines(body), IsRow)

-----------------------------------------------------------------------------
(* What the platform can answer *)

trunk == "main"

\* The names of the jobs of the workflow; "lint" is never monitored.
JobNamesAll == {"build", "test", "lint"}

\* The configured `jobs` input: a non-empty ordered list of names.
JobNameLists == {<<"build">>, <<"build", "test">>, <<"test", "build">>}

\* started_at and completed_at of a job, in milliseconds: unfinished, 1.499 s,
\* 125.5 s, and a completion 61.5 s before the start.
JobTimestamps ==
    {[started_at |-> 0, completed_at |-> None],
     [started_at |-> 0, completed_at |-> Some(1499)],
     [started_at |-> 0, completed_at |-> Some(125500)],
     [started_at |-> 61500, completed_at |-> Some(0)]}

\* A job as listJobsForWorkflowRun returns it.
JobDomain ==
    {[name |-> n,
      started_at |-> t.started_at,
      completed_at |-> t.completed_at,
      html_url |-> IF h THEN Some("https://github.test/jobs/" \o n) ELSE None,
      url |-> "https://api.github.test/jobs/" \o n]
        : n \in JobNamesAll, t \in JobTimestamps,
          h \in BOOLEAN}

\* The jobs whose html_url is set.
JobsWithHtmlUrl == {j \in JobDomain : j.html_url # None}

\* A run as listWorkflowRuns returns it, but for its id.
RunDomain ==
    [head_branch : {trunk, "feature"},
     status : {"completed", "in_progress"},
     conclusion : {"success", "failure"},
     run_started_at : {None, Some(0)},
     updated_at : {100000}]

\* The list with each run given its id: ids fall along the list, the newest
\* run having the greatest.
withIds(runs) == [k \in DOMAIN runs |-> [id |-> Len(runs) + 1 - k] @@ runs[k]]

\* What getWorkflowRun answers for a run.
runData(id) ==
    [html_url |-> "https://github.test/runs/" \o ToString(id),
     head_sha |-> <<"c", "0", "f", "f", "e", "e", "1", "2", "3">>,
     created_at |-> 0,
     run_started_at |-> Some(0),
     workflow_id |-> 1]

\* ctx.runId
currentRunId == 10

-----------------------------------------------------------------------------
(* The pure functions, each applied to arguments drawn in the initial state *)

\* The runs of the action that may be under way at once.
Invocations == {1, 2}

\* An invocation that has not started: its position (pc), what it was given
\* and what it has done.
NoInvocation ==
    [pc |-> "idle", variant |-> "none", failedCall |-> "none", setFailed |-> <<>>,
     skipped |-> "no", baseline |-> "unknown", body |-> <<>>,
     listed |-> FALSE, previousTimings |-> None,
     writes |-> 0, created |-> None, updated |-> None, published |-> FALSE]

\* Nothing of the pull request or of an invocation is involved.
Quiet ==
    /\ comments = <<>>
    /\ nextId = 1
    /\ inv = [i \in Invocations |-> NoInvocation]
    /\ platform = [jobsToMonitor |-> <<>>, message |-> "", workflow_runs |-> <<>>,
                   jobs |-> <<>>, duration |-> 0]
    /\ log = [created |-> <<>>, updated |-> <<>>, started |-> 0, others |-> 0]

Apply(fn, result) ==
    /\ call.fn = fn
    /\ ~call.done
    /\ call' = [call EXCEPT !.done = TRUE, !.result = result]
    /\ UNCHANGED <<comments, nextId, inv, platform, log>>

InitSeverity ==
    /\ Quiet
    /\ call \in {[fn |-> "getSeverity", percentage |-> p, done |-> FALSE, result |-> None]
                    : p \in (-MaxPct)..MaxPct}

CallGetSeverity == Apply("getSeverity", getSeverity(call.percentage))

SpecSeverity == InitSeverity /\ [][CallGetSeverity]_vars

InitBaseline ==
    /\ Quiet
    /\ call \in {[fn |-> "latestRun", workflow_runs |-> withIds(runs), branch |-> trunk,
                  done |-> FALSE, result |-> None]
                    : runs \in SeqsUpTo(RunDomain, MaxRuns)}

CallLatestRun == Apply("latestRun", latestRun(call.workflow_runs, call.branch))

SpecBaseline == InitBaseline /\ [][CallLatestRun]_vars

InitTimings ==
    /\ Quiet
    /\ call \in {[fn |-> "getTimings", allJobs |-> jobs, jobNames |-> names,
                  done |-> FALSE, result |-> None]
                    : jobs \in SeqsUpTo(JobDomain, MaxJobs), names \in JobNameLists}

CallGetTimings ==
    Apply("getTimings",
          getTimings(runData(currentRunId), call.allJobs, currentRunId, call.jobNames))

SpecTimings == InitTimings /\ [][CallGetTimings]_vars

\* The timings of the default branch's run that formatComment is tried on.
BaselineJobLists ==
    {<<>>,
     <<[name |-> "build", started_at |-> 0, completed_at |-> Some(125500),
        html_url |-> None, url |-> "https://api.github.test/jobs/build"]>>}

\* A finished, successful run of the default branch.
trunkRun ==
    [head_branch |-> trunk, status |-> "completed", conclusion |-> "success",
     run_started_at |-> Some(0), updated_at |-> 100000]

\* The CommentInputs of a current run with these jobs and of a default
\* branch without a run (base = None) or with a run of the jobs base[1].
commentInputs(jobs, names, message, base) ==
    [currentRun |-> getTimings(runData(currentRunId), jobs, currentRunId, names).value,
     defaultBranch |->
        getDefaultBranchTimings(
            IF base = None THEN <<>> ELSE withIds(<<trunkRun>>),
            [id \in {1} |-> runData(id)],
            [id \in {1} |-> IF base = None THEN <<>> ELSE base[1]],
            trunk, names).value,
     previousRuns |-> getPreviousRunTimings,
     jobNames |-> names,
     message |-> message]

InitFormat ==
    /\ Quiet
    /\ call \in
        {[fn |-> "formatComment",
          comment |-> commentInputs(jobs, names, message, base),
          done |-> FALSE, result |-> None]
            : jobs \in SeqsUpTo(JobsWithHtmlUrl, MaxJobs),
              names \in JobNameLists,
              message \in {None, Some(""), Some("Timings of this pull request")},
              base \in {None} \cup {Some(baseJobs) : baseJobs \in BaselineJobLists}}

CallFormatComment == Apply("formatComment", formatComment(call.comment))

SpecFormat == InitFormat /\ [][CallFormatComment]_vars

-----------------------------------------------------------------------------
(* Severity tiers *)

SixTiers ==
    {"**regressed severely**", "regressed a bit", "regressed slightly",
     "improved slightly", "improved a lot", "**improved significantly**"}

SeverityCalled == call.fn = "getSeverity" /\ call.done

\* C7, as amended: getSeverity maps every percent delta to one of the six
\* tiers, by the half-open intervals p > 50, 20 < p <= 50, 0 < p <= 20,
\* -20 < p <= 0, -50 < p <= -20 and p <= -50: a boundary belongs to the tier
\* below it, so that 50 gives "regressed a bit", 0 gives "improved slightly"
\* and -50 gives "improved significantly".
SeverityFollowsHalfOpenIntervals ==
    SeverityCalled =>
        LET p == call.percentage
            change == call.result.change
        IN  /\ change \in SixTiers
            /\ change = "**regressed severely**" <=> p > 50
            /\ change = "regressed a bit" <=> (20 < p /\ p <= 50)
            /\ change = "regressed slightly" <=> (0 < p /\ p <= 20)
            /\ change = "improved slightly" <=> (-20 < p /\ p <= 0)
            /\ change = "improved a lot" <=> (-50 < p /\ p <= -20)
            /\ change = "**improved significantly**" <=> p <= -50

\* C7's case: the delta -50 has been bucketed.
SeverityOfMinusFiftyTaken ==
    /\ SeverityCalled
    /\ call.percentage = -50
    /\ call.result.change = "**improved significantly**"

\* C7 as claimed: every delta gets one of the six tiers, and 50 gives
\* "regressed a bit", -50 gives "improved a lot", 0 gives "improved slightly".
SeverityBoundariesOnLessSevereSide ==
    SeverityCalled =>
        /\ call.result.change \in SixTiers
        /\ call.percentage = 50 => call.result.change = "regressed a bit"
        /\ call.percentage = -50 => call.result.change = "improved a lot"
        /\ call.percentage = 0 => call.result.change = "improved slightly"

-----------------------------------------------------------------------------
(* Baseline selection *)

BaselineCalled == call.fn = "latestRun" /\ call.done

\* The filter of the selector, stated on one run.
passesFilter(run) ==
    run.head_branch = trunk /\ run.status = "completed" /\ run.conclusion = "success"

\* Run k is the first of the list that passes the filter.
isFirstPassing(runs, k) ==
    /\ k \in DOMAIN runs
    /\ passesFilter(runs[k])
    /\ \A m \in 1..(k - 1) : ~passesFilter(runs[m])

\* C3, as amended: the baseline selected from a newest-first list is the
\* first entry with head branch = trunk, status completed and conclusion
\* success, and the result is absent exactly when no entry passes that filter
\* or the first entry that passes it has no start timestamp.
BaselineIsFirstPassingStartedRun ==
    BaselineCalled =>
        LET runs == call.workflow_runs
        IN  /\ call.result # None =>
                \E k \in DOMAIN runs : isFirstPassing(runs, k) /\ call.result[1] = runs[k]
            /\ call.result = None <=>
                \/ \A k \in DOMAIN runs : ~passesFilter(runs[k])
                \/ \E k \in DOMAIN runs :
                       isFirstPassing(runs, k) /\ runs[k].run_started_at = None

\* C3's case: a later run passes the filter too, and the first was selected.
BaselineChosenAmongSeveral ==
    /\ BaselineCalled
    /\ call.result # None
    /\ Len(successfulRuns(call.workflow_runs, trunk)) >= 2
    /\ ~passesFilter(call.workflow_runs[1])

\* C3 as claimed: the first entry passing the filter is selected, and the
\* result is absent exactly when no entry passes the filter.
BaselineAbsentOnlyWithoutPassingRun ==
    BaselineCalled =>
        LET runs == call.workflow_runs
        IN  /\ call.result # None =>
                \E k \in DOMAIN runs : isFirstPassing(runs, k) /\ call.result[1] = runs[k]
            /\ call.result = None <=> \A k \in DOMAIN runs : ~passesFilter(runs[k])

-----------------------------------------------------------------------------
(* The timing collector's result *)

TimingsCalled == call.fn = "getTimings" /\ call.done

\* The monitored jobs of a list that have (finished) or lack a completion
\* timestamp, in the order of the list.
monitoredJobs(allJobs, jobNames, finished) ==
    SelectSeq(allJobs,
              LAMBDA j : /\ \E k \in DOMAIN jobNames : jobNames[k] = j.name
                         /\ (j.completed_at # None) = finished)

\* C5: getTimings leaves a monitored job without completion timestamp out of
\* the result, with one warning for it, and goes on; the monitored jobs that
\* have one are all in the result, in the order of the API's list; and a
\* result without jobs is still a WorkflowRun, with an empty job list.
CollectorSkipsUnfinishedJobs ==
    TimingsCalled =>
        LET finished == monitoredJobs(call.allJobs, call.jobNames, TRUE)
            unfinished == monitoredJobs(call.allJobs, call.jobNames, FALSE)
            run == call.result.value
            skipped == SelectSeq(call.result.warnings, LAMBDA w : w.kind = "unfinished")
        IN  /\ Len(run.jobs) = Len(finished)
            /\ \A k \in DOMAIN finished :
                   /\ run.jobs[k].name = finished[k].name
                   /\ run.jobs[k].duration * 1000 - 500 <=
                          finished[k].completed_at[1] - finished[k].started_at
                   /\ finished[k].completed_at[1] - finished[k].started_at <
                          run.jobs[k].duration * 1000 + 500
            /\ Len(skipped) = Len(unfinished)
            /\ \A k \in DOMAIN unfinished : skipped[k].names = <<unfinished[k].name>>
            /\ run.runId = currentRunId
            /\ finished = <<>> => run.jobs = <<>>

\* C5's case: the first monitored job has not finished and a later one has.
CollectorWentOnAfterUnfinishedJob ==
    /\ TimingsCalled
    /\ Len(call.allJobs) = 2
    /\ call.allJobs[1].name = "build" /\ call.allJobs[1].completed_at = None
    /\ call.allJobs[2].name = "test" /\ call.allJobs[2].completed_at # None
    /\ call.jobNames = <<"build", "test">>
    /\ Len(call.result.value.jobs) = 1
    /\ call.result.value.jobs[1].name = "test"
    /\ Len(call.result.warnings) = 1

\* C6 as claimed: the job list of every WorkflowRun getTimings returns holds
\* only monitored names, each name at most once, and no negative duration.
CollectedJobsAreWellFormed ==
    TimingsCalled =>
        LET jobs == call.result.value.jobs
        IN  /\ \A k \in DOMAIN jobs : isMonitored(call.jobNames, jobs[k].name)
            /\ \A k, m \in DOMAIN jobs : jobs[k].name = jobs[m].name => k = m
            /\ \A k \in DOMAIN jobs : jobs[k].duration >= 0

-----------------------------------------------------------------------------
(* The table's layout *)

FormatCalled == call.fn = "formatComment" /\ call.done

\* The runs a table shows, in the order claimed: the baseline, then the current.
shownRuns(comment) ==
    (IF comment.defaultBranch # None THEN <<comment.defaultBranch[1]>> ELSE <<>>)
    \o <<comment.currentRun>>

\* C9: the table's header row is "Run" and then the job names in the
\* configured order; every data row has one cell per monitored job, in that
\* order; a cell is "-" exactly when the run has no job of that name, and
\* otherwise the formatted duration of the run's job of that name, linked to
\* its URL; and the baseline's row, when there is one, precedes the current
\* run's.
TableFollowsConfiguredColumns ==
    FormatCalled =>
        LET comment == call.comment
            rows == Rows(call.result)
            runs == shownRuns(comment)
            n == Len(comment.jobNames)
        IN  /\ Len(rows) = 2 + Len(runs)
            /\ Cells(rows[1]) = << <<"Run">> >> \o [k \in 1..n |-> <<comment.jobNames[k]>>]
            /\ \A r \in DOMAIN runs :
                   LET cells == Cells(rows[2 + r])
                   IN  /\ Len(cells) = 1 + n
                       /\ cells[1] = <<"[">> \o runs[r].displayName
                                         \o <<"](", runs[r].htmlUrl, ")">>
                       /\ \A k \in 1..n :
                              LET named == SelectSeq(runs[r].jobs,
                                                     LAMBDA j : j.name = comment.jobNames[k])
                              IN  /\ cells[k + 1] = <<"-">> <=> named = <<>>
                                  /\ named # <<>> =>
                                         cells[k + 1] =
                                             <<"[">> \o formatDuration(named[1].duration)
                                                 \o <<"](", named[1].url, ")">>

\* C9's case: a table of "test" then "build", with a baseline row, whose
\* current run has a "build" job and no "test" job.
TableWithMissingJobFormatted ==
    /\ FormatCalled
    /\ call.comment.jobNames = <<"test", "build">>
    /\ call.comment.defaultBranch # None
    /\ Len(call.comment.currentRun.jobs) = 1
    /\ call.comment.currentRun.jobs[1].name = "build"
    /\ Len(Rows(call.result)) = 4

-----------------------------------------------------------------------------
(* An invocation up to its call of postTimings *)

\* What a rejected call or a throw hands to the catch clause: an Error, a
\* string, or anything else.
ErrorKinds == {"Error", "string", "other"}

\* The calls of the REST API that the narrative variant makes before postTimings.
NarrativeCalls == {"getWorkflowRun", "repos.get", "listWorkflowRuns"}

\* The calls of the REST API that the table variant makes before postTimings.
TableCalls ==
    {"loadConfig.repos.get", "loadConfig.getWorkflowRun",
     "getTimings.getWorkflowRun", "getTimings.listJobs", "listWorkflowRuns",
     "baseline.getWorkflowRun", "baseline.listJobs"}

PrePublishCalls == NarrativeCalls \cup TableCalls

\* The messages the catch clause of the narrative run hands to setFailed.
catchNarrative(kind) == IF kind = "Error" THEN <<"error.message">> ELSE <<>>

\* The messages the catch clause of the table run hands to setFailed.
catchTable(kind) ==
    IF kind = "Error" THEN <<"error.message">>
    ELSE IF kind = "string" THEN <<"error">>
    ELSE <<"An unknown error has occurred">>

catch(variant, kind) ==
    IF variant = "narrative" THEN catchNarrative(kind) ELSE catchTable(kind)

\* The invocation `was`, ended by its catch clause after callName failed.
caught(was, callName, kind) ==
    [was EXCEPT !.pc = "done", !.failedCall = callName,
                !.setFailed = catch(was.variant, kind)]

\* The comment of the narrative variant.  The model's durations make the
\* percentage a whole number, so toFixed(2) adds ".00"; the backquotes around
\* the branch are written as quotes.
narrativeContent(duration, url, previousRun, branch) ==
    LET difference == duration - previousRun
        percentDifference == (difference * 100) \div previousRun
        severity == getSeverity(percentDifference)
    IN  <<"\n## ", header, "\n\n", severity.emoji, " The run time for [\"",
          "ctx.workflow", "\"](", url, ") has ", severity.change, " by ">>
        \o formatDuration(difference)
        \o <<" (", ToString(Abs(percentDifference)), ".00%) ", severity.emoji,
             "\n\nThe current run time is ">>
        \o formatDuration(duration)
        \o <<" while '", branch, "' took ">>
        \o formatDuration(previousRun)
        \o <<".\n        ">>

\* defaultBranchRunTime, given what listWorkflowRuns answered: the run time
\* of the latest run in seconds, None for undefined.
defaultBranchRunTime(workflow_runs, default_branch) ==
    LET latest == latestRun(workflow_runs, default_branch)
    IN  IF latest = None THEN None
        ELSE Some([previousRun |->
                       (latest[1].updated_at - latest[1].run_started_at[1]) \div 1000,
                   branch |-> default_branch])

\* run() of the narrative variant up to its call of postTimings.  api is what
\* the platform answers, failAt the call that is rejected (with a value of
\* that kind), "none" when none is.
runNarrative(isPullRequest, run_started_at, api, failAt, kind) ==
    LET start == [NoInvocation EXCEPT !.variant = "narrative"]
        prev == defaultBranchRunTime(api.workflow_runs, trunk)
    IN  IF ~isPullRequest
        THEN [start EXCEPT !.pc = "done", !.skipped = "not a pull request"]
        ELSE IF failAt = "getWorkflowRun" THEN caught(start, failAt, kind)
        ELSE IF run_started_at = None THEN caught(start, "none", "Error")
        ELSE IF failAt \in {"repos.get", "listWorkflowRuns"}
        THEN caught(start, failAt, kind)
        ELSE IF prev = None
        THEN [start EXCEPT !.pc = "done", !.skipped = "no baseline",
                           !.baseline = "absent"]
        ELSE [start EXCEPT !.pc = "list", !.baseline = "present",
                           !.body = narrativeContent(api.duration,
                                                     runData(currentRunId).html_url,
                                                     prev[1].previousRun,
                                                     prev[1].branch)]

\* A variant of the table run that, like the narrative one, skips the
\* comment when the default branch has no run to compare against.
runTableSkipsWithoutBaseline(inputsGiven, isPullRequest, api, failAt, kind) ==
    LET start == [NoInvocation EXCEPT !.variant = "table"]
        latest == latestRun(api.workflow_runs, trunk)
        config == [jobsToMonitor |-> api.jobsToMonitor, message |-> Some(api.message)]
        currentRun == getTimings(runData(currentRunId), api.jobs, currentRunId,
                                 config.jobsToMonitor).value
        defaultBranch ==
            getDefaultBranchTimings(api.workflow_runs,
                                    [id \in 1..Len(api.workflow_runs) |-> runData(id)],
                                    [id \in 1..Len(api.workflow_runs) |-> api.jobs],
                                    trunk, config.jobsToMonitor).value
    IN  IF ~inputsGiven THEN caught(start, "none", "Error")
        ELSE IF ~isPullRequest
        THEN [start EXCEPT !.pc = "done", !.skipped = "not a pull request"]
        ELSE IF failAt \in TableCalls \ {"baseline.getWorkflowRun", "baseline.listJobs"}
        THEN caught(start, failAt, kind)
        ELSE IF latest = None
        THEN [start EXCEPT !.pc = "done", !.skipped = "no baseline",
                           !.baseline = "absent"]
        ELSE IF failAt \in {"baseline.getWorkflowRun", "baseline.listJobs"}
        THEN caught(start, failAt, kind)
        ELSE [start EXCEPT
                !.pc = "list", !.baseline = "present",
                !.body = formatComment(
                             calculateAllTimings(config, currentRun, defaultBranch))]

\* run() of the table variant up to its call of postTimings.  inputsGiven
\* says whether the required inputs (token, jobs) are set: getInput throws an
\* Error when one is not.
runTable(inputsGiven, isPullRequest, api, failAt, kind) ==
    LET start == [NoInvocation EXCEPT !.variant = "table"]
        latest == latestRun(api.workflow_runs, trunk)
        config == [jobsToMonitor |-> api.jobsToMonitor, message |-> Some(api.message)]
        currentRun == getTimings(runData(currentRunId), api.jobs, currentRunId,
                                 config.jobsToMonitor).value
        defaultBranch ==
            getDefaultBranchTimings(api.workflow_runs,
                                    [id \in 1..Len(api.workflow_runs) |-> runData(id)],
                                    [id \in 1..Len(api.workflow_runs) |-> api.jobs],
                                    trunk, config.jobsToMonitor).value
    IN  IF ~inputsGiven THEN caught(start, "none", "Error")
        ELSE IF ~isPullRequest
        THEN [start EXCEPT !.pc = "done", !.skipped = "not a pull request"]
        ELSE IF failAt \in TableCalls \ {"baseline.getWorkflowRun", "baseline.listJobs"}
        THEN caught(start, failAt, kind)
        ELSE IF latest # None /\ failAt \in {"baseline.getWorkflowRun", "baseline.listJobs"}
        THEN caught(start, failAt, kind)
        ELSE [start EXCEPT
                !.pc = "list",
                !.baseline = IF latest = None THEN "absent" ELSE "present",
                !.body = formatComment(
                             calculateAllTimings(config, currentRun, defaultBranch))]

-----------------------------------------------------------------------------
(* postTimings *)

\* A variant of the search that takes a comment only when the header is its
\* whole body.
previousTimingsWholeBody(commentList) ==
    LET k == Find([m \in DOMAIN commentList |-> commentList[m].body = <<header>>])
    IN  IF k = 0 THEN None ELSE Some(commentList[k].id)

\* The id of the first comment whose body includes the header, None for
\* undefined.
previousTimings(commentList) ==
    LET k == Find([m \in DOMAIN commentList |-> includes(commentList[m].body, header)])
    IN  IF k = 0 THEN None ELSE Some(commentList[k].id)

\* A variant of the write that looks for the header again when it writes.
writeCommentLooksAgain(commentList, id, previous, body) ==
    LET now == previousTimings(commentList)
    IN  IF now # None
        THEN [k \in DOMAIN commentList |->
                 IF commentList[k].id = now[1]
                 THEN [commentList[k] EXCEPT !.body = body]
                 ELSE commentList[k]]
        ELSE Append(commentList, [id |-> id, body |-> body])

\* The pull request's comments after updateComment (previous is the id found)
\* or createComment (previous is None, and the platform gives the comment id).
writeComment(commentList, id, previous, body) ==
    IF previous # None
    THEN [k \in DOMAIN commentList |->
             IF commentList[k].id = previous[1]
             THEN [commentList[k] EXCEPT !.body = body]
             ELSE commentList[k]]
    ELSE Append(commentList, [id |-> id, body |-> body])

-----------------------------------------------------------------------------
(* The pull request and the invocations on it *)

\* The workflow runs listWorkflowRuns may answer with, newest first.
Histories ==
    {<<>>,
     <<trunkRun>>,
     <<[trunkRun EXCEPT !.head_branch = "feature"], trunkRun>>}

\* The configuration of the workflow and the answers of the platform during
\* one behaviour; every run of the workflow has the same jobs.
Platforms ==
    [jobsToMonitor : JobNameLists,
     message : {"", "Timings of this pull request"},
     workflow_runs : {withIds(runs) : runs \in Histories},
     jobs : {<<[name |-> "build", started_at |-> 0, completed_at |-> Some(125500),
                html_url |-> Some("https://github.test/jobs/build"),
                url |-> "https://api.github.test/jobs/build"]>>},
     duration : {150}]

Init ==
    /\ comments = <<>>
    /\ nextId = 1
    /\ inv = [i \in Invocations |-> NoInvocation]
    /\ platform \in Platforms
    /\ log = [created |-> <<>>, updated |-> <<>>, started |-> 0, others |-> 0]
    /\ call = [fn |-> "none", done |-> TRUE, result |-> None]

CanStart(i) == inv[i].pc \in {"idle", "done"} /\ log.started < MaxInvocations

NoneRunning == \A j \in Invocations : inv[j].pc \in {"idle", "done"}

\* The narrative run, from its start to its call of postTimings.
RunNarrative(i) ==
    /\ CanStart(i)
    /\ \E isPullRequest \in BOOLEAN, run_started_at \in {None, Some(0)},
          failAt \in NarrativeCalls \cup {"none"}, kind \in ErrorKinds :
           inv' = [inv EXCEPT ![i] =
                      runNarrative(isPullRequest, run_started_at, platform, failAt, kind)]
    /\ log' = [log EXCEPT !.started = @ + 1]
    /\ UNCHANGED <<comments, nextId, platform, call>>

\* The table run, from its start to its call of postTimings.
RunTable(i) ==
    /\ CanStart(i)
    /\ \E inputsGiven \in BOOLEAN, isPullRequest \in BOOLEAN,
          failAt \in TableCalls \cup {"none"}, kind \in ErrorKinds :
           inv' = [inv EXCEPT ![i] =
                      runTable(inputsGiven, isPullRequest, platform, failAt, kind)]
    /\ log' = [log EXCEPT !.started = @ + 1]
    /\ UNCHANGED <<comments, nextId, platform, call>>

\* postTimings up to its first await: listComments answers, or is rejected.
ListComments(i) ==
    /\ inv[i].pc = "list"
    /\ \E rejected \in BOOLEAN, kind \in ErrorKinds :
           inv' = [inv EXCEPT ![i] =
                      IF rejected THEN caught(@, "listComments", kind)
                      ELSE [@ EXCEPT !.pc = "write", !.listed = TRUE,
                                     !.previousTimings = previousTimings(comments)]]
    /\ UNCHANGED <<comments, nextId, platform, log, call>>

\* The rest of postTimings: updateComment or createComment, which the
\* platform carries out or rejects.
WriteComment(i) ==
    /\ inv[i].pc = "write"
    /\ \E rejected \in BOOLEAN, kind \in ErrorKinds :
           IF rejected
           THEN /\ inv' = [inv EXCEPT ![i] =
                              caught(@, IF @.previousTimings # None
                                        THEN "updateComment" ELSE "createComment", kind)]
                /\ UNCHANGED <<comments, nextId, log>>
           ELSE /\ comments' = writeComment(comments, nextId,
                                            inv[i].previousTimings, inv[i].body)
                /\ nextId' = IF inv[i].previousTimings = None THEN nextId + 1 ELSE nextId
                /\ log' = IF inv[i].previousTimings = None
                          THEN [log EXCEPT !.created = Append(@, nextId)]
                          ELSE [log EXCEPT !.updated =
                                               Append(@, inv[i].previousTimings[1])]
                /\ inv' = [inv EXCEPT ![i] =
                              [@ EXCEPT !.pc = "done", !.writes = @ + 1,
                                        !.published = TRUE,
                                        !.created = IF inv[i].previousTimings = None
                                                    THEN Some(nextId) ELSE None,
                                        !.updated = inv[i].previousTimings]]
    /\ UNCHANGED <<platform, call>>

\* Somebody else comments on the pull request.
OtherComment ==
    /\ log.others < MaxOtherComments
    /\ comments' = Append(comments, [id |-> nextId, body |-> <<"LGTM">>])
    /\ nextId' = nextId + 1
    /\ log' = [log EXCEPT !.others = @ + 1]
    /\ UNCHANGED <<inv, platform, call>>

\* One invocation at a time: the next starts when the last has ended.
StartNarrative == NoneRunning /\ RunNarrative(1)

StartTable == NoneRunning /\ RunTable(1)

Next ==
    \/ StartNarrative
    \/ StartTable
    \/ ListComments(1)
    \/ WriteComment(1)
    \/ OtherComment

Spec == Init /\ [][Next]_vars

\* Two invocations that may overlap: a re-triggered workflow starts while
\* the earlier run is under way.
RaceNarrative(i) == inv[i].pc = "idle" /\ RunNarrative(i)

RaceTable(i) == inv[i].pc = "idle" /\ RunTable(i)

NextRace ==
    \/ \E i \in Invocations : RaceNarrative(i)
    \/ \E i \in Invocations : RaceTable(i)
    \/ \E i \in Invocations : ListComments(i)
    \/ \E i \in Invocations : WriteComment(i)
    \/ OtherComment

SpecRace == Init /\ [][NextRace]_vars

-----------------------------------------------------------------------------
(* Publishing *)

\* The comments whose body includes the header.
markerComments(commentList) ==
    SelectSeq(commentList, LAMBDA comment : includes(comment.body, header))

FailureBeforePublishFailsOnce ==
    [][\A i \in Invocations :
           (inv'[i] # inv[i] /\ inv'[i].pc = "done"
                /\ inv'[i].failedCall \in PrePublishCalls) =>
               /\ inv'[i].writes = 0
               /\ log'.created = log.created /\ log'.updated = log.updated
               /\ comments' = comments
               /\ Len(inv'[i].setFailed) = 1]_vars

\* C4, as amended: when the baseline selector returns no baseline the
\* invocation is not a failure; the table variant still assembles a report
\* with the current run's row and no baseline row and, unless a call of
\* postTimings fails, publishes it; the narrative variant ends with "No
\* recent runs to compare against. Skipping..." and publishes nothing.
NoBaselineDegradesOrSkips ==
    \A i \in Invocations :
        inv[i].baseline = "absent" =>
            /\ inv[i].variant = "table" =>
                   /\ Len(Rows(inv[i].body)) = 3
                   /\ Cells(Rows(inv[i].body)[3])[1] =
                          <<"[">> \o SubSeq(runData(currentRunId).head_sha, 1, 7)
                              \o <<"](", runData(currentRunId).html_url, ")">>
                   /\ inv[i].failedCall = "none" => inv[i].setFailed = <<>>
                   /\ (inv[i].pc = "done" /\ inv[i].failedCall = "none") =>
                          /\ inv[i].published
                          /\ \E k \in DOMAIN comments : comments[k].body = inv[i].body
            /\ inv[i].variant = "narrative" =>
                   /\ inv[i].pc = "done"
                   /\ inv[i].skipped = "no baseline"
                   /\ inv[i].setFailed = <<>>
                   /\ ~inv[i].published /\ inv[i].writes = 0 /\ inv[i].body = <<>>

\* C4's case: a table run without baseline has published its report.
CurrentOnlyReportPublished ==
    \E i \in Invocations :
        /\ inv[i].variant = "table"
        /\ inv[i].baseline = "absent"
        /\ inv[i].published

\* C4 as claimed: when the baseline selector returns no baseline and no call
\* fails, the invocation is not a failure and a report with the current
\* run's timings and no baseline row is published.
NoBaselineStillPublishes ==
    \A i \in Invocations :
        (inv[i].baseline = "absent" /\ inv[i].pc = "done" /\ inv[i].failedCall = "none") =>
            /\ inv[i].setFailed = <<>>
            /\ inv[i].published
            /\ Len(Rows(inv[i].body)) = 3

\* C8 as claimed: the body a table run publishes has the configured message,
\* when that is not empty, after the header and above the table's header
\* row, and nothing there when it is empty.
MessageIsAboveTable ==
    \A i \in Invocations :
        (inv[i].variant = "table" /\ inv[i].published) =>
            LET lines == Lines(inv[i].body)
                top == Find([k \in DOMAIN lines |-> IsRow(lines[k])])
            IN  /\ lines[1] = <<header>>
                /\ IF platform.message # ""
                   THEN \E k \in 2..(top - 1) : lines[k] = <<platform.message>>
                   ELSE top = 3

\* C10: when two invocations have both listed the comments and found no
\* marker comment, and both have then published, two comments include the
\* header; and each invocation writes at most once, after it has listed.
RaceLeavesTwoMarkerComments ==
    /\ \A i, j \in Invocations :
           (/\ i # j
            /\ inv[i].listed /\ inv[i].previousTimings = None /\ inv[i].published
            /\ inv[j].listed /\ inv[j].previousTimings = None /\ inv[j].published) =>
               Len(markerComments(comments)) >= 2
    /\ \A i \in Invocations :
           /\ inv[i].writes <= 1
           /\ inv[i].writes = 1 => inv[i].listed
           /\ inv[i].pc = "write" => inv[i].listed /\ inv[i].writes = 0

\* C10's case: the pull request has two marker comments.
TwoMarkerComments == Len(markerComments(comments)) = 2

====
